---- MODULE Spec2Model ----
(***************************************************************************)
(* SmartSaverNet: the sequential agent pipeline (orchestrator/graph.py,    *)
(* app.py), the shared UserState (orchestrator/state.py), the six agents   *)
(* (agents/*.py) and the heuristics they wrap (orchestrator/tools.py).     *)
(*                                                                         *)
(* Numbers.  A Python float is modelled as an exact rational <<n, d>> in   *)
(* lowest terms with d > 0; None is the empty tuple.  round() is           *)
(* round-half-even on the exact value.  Binary floating point error is     *)
(* not modelled.                                                           *)
(***************************************************************************)
EXTENDS Integers, Sequences, FiniteSets, TLC

VARIABLES
    heap,          \* the live UserState objects: reference -> value
    user_state,    \* st.session_state.user_state: a reference into heap
    enabled,       \* the multiselect's ordered list of agent module stems
    pc,            \* position of the application script / pipeline call
    graph,         \* build_graph's compiled graph, or NoGraph
    agents,        \* load_agents' list of constructed agents
    payload,       \* the dict threaded through the graph nodes
    frontier,      \* graph nodes scheduled to run next
    executing,     \* graph nodes that have started and not yet returned
    latest_msgs,   \* the messages returned to the caller
    notices,       \* st.warning / st.error calls of this script run
    escaped,       \* the exception that left run_graph_once, "" if none
    calls,         \* history: one record per Agent.step invocation
    state0,        \* history: the value of the State when the run began
    today,         \* the environment's calendar date, date.today()
    runs           \* history: one record per finished "Run Once"

vars == <<heap, user_state, enabled, pc, graph, agents, payload,
          frontier, executing, latest_msgs, notices, escaped, calls, state0,
          today, runs>>

(***************************************************************************)
(* Python values                                                           *)
(***************************************************************************)
None == <<>>

EmptyDict == [k \in {} |-> None]

\* dict.get(k, dflt)
Get(d, k, dflt) == IF k \in DOMAIN d THEN d[k] ELSE dflt

\* Python evaluates an expression once and binds the value to a name:
\* The({ e(v) : v \in {x} }) is e with v bound to the value of x
The(S) == CHOOSE v \in S : TRUE

RECURSIVE GCD(_, _)
GCD(a, b) == IF b = 0 THEN a ELSE The({ GCD(b, r) : r \in {a % b} })

Abs(x) == IF x < 0 THEN -x ELSE x

\* the float n/d (d # 0)
Rat(n, d) ==
    The({ LET s == IF b < 0 THEN -1 ELSE 1
              g == GCD(Abs(a), Abs(b))
          IN  <<(s * a) \div g, (s * b) \div g>> : a \in {n}, b \in {d} })

R(n) == <<n, 1>>

\* float arithmetic; common factors are cancelled before multiplying.  Each
\* operand is evaluated once and bound (a, b) before it is used.
Add(x, y) ==
    The({ LET g == GCD(a[2], b[2])
          IN  Rat(a[1] * (b[2] \div g) + b[1] * (a[2] \div g), (a[2] \div g) * b[2])
          : a \in {x}, b \in {y} })
Neg(x) == The({ <<-a[1], a[2]>> : a \in {x} })
Sub(x, y) == Add(x, Neg(y))
Mul(x, y) ==
    The({ LET g == GCD(Abs(a[1]), b[2])
              h == GCD(Abs(b[1]), a[2])
          IN  Rat((a[1] \div g) * (b[1] \div h), (a[2] \div h) * (b[2] \div g))
          : a \in {x}, b \in {y} })
\* x / y for y # 0
Div(x, y) ==
    The({ Mul(a, IF b[1] < 0 THEN <<-b[2], -b[1]>> ELSE <<b[2], b[1]>>)
          : a \in {x}, b \in {y} })
\* x < y: by the integer parts, then by the fractional parts
Lt(x, y) ==
    \E a \in {x}, b \in {y} :
        LET g == GCD(a[2], b[2])
            qx == a[1] \div a[2]
            qy == b[1] \div b[2]
        IN  IF qx # qy THEN qx < qy
            ELSE (a[1] % a[2]) * (b[2] \div g) < (b[1] % b[2]) * (a[2] \div g)
Le(x, y) == ~Lt(y, x)
max(x, y) == The({ IF Lt(a, b) THEN b ELSE a : a \in {x}, b \in {y} })
min(x, y) == The({ IF Lt(b, a) THEN b ELSE a : a \in {x}, b \in {y} })

\* Python truthiness of a number or None
Truthy(x) == \E a \in {x} : a # None /\ a[1] # 0

\* round(x) to an integer, ties to even
RoundHalfEven(x) ==
    The({ LET q == a[1] \div a[2]
              r == a[1] - q * a[2]
          IN  IF 2 * r < a[2] THEN q
              ELSE IF 2 * r > a[2] THEN q + 1
              ELSE IF q % 2 = 0 THEN q ELSE q + 1 : a \in {x} })

\* round(x, ndigits) where unit = 10^-ndigits
RoundTo(x, unit) ==
    The({ Mul(R(RoundHalfEven(Div(a, u))), u) : a \in {x}, u \in {unit} })

round2(x) == RoundTo(x, <<1, 100>>)

\* int(x): truncation toward zero
Trunc(x) ==
    The({ IF a[1] >= 0 THEN a[1] \div a[2] ELSE -((-a[1]) \div a[2]) : a \in {x} })

(***************************************************************************)
(* orchestrator/tools.py                                                   *)
(***************************************************************************)
DEFAULT_BUDGET_RULE ==
    [essentials |-> <<1, 2>>, wants |-> <<3, 10>>, savings |-> <<1, 5>>]

clamp(v, lo, hi) == max(lo, min(hi, v))

\* calc_budget raises TypeError when float() is given None
calc_budget_raises(state) == state.income = None \/ state.savings_rate = None

\* calc_budget without lines 47-50: essentials and wants keep the default
\* ratios whatever the savings ratio is
calc_budget_no_rebalance(state) ==
    [essentials |-> round2(Mul(state.income, DEFAULT_BUDGET_RULE.essentials)),
     wants      |-> round2(Mul(state.income, DEFAULT_BUDGET_RULE.wants)),
     savings    |-> round2(Mul(state.income,
                               clamp(state.savings_rate, R(0), <<9, 10>>)))]

calc_budget(state) ==
    LET income == state.income
        savings_rate == clamp(state.savings_rate, R(0), <<9, 10>>)
        savings_ratio == savings_rate
        remain == max(R(0), Sub(R(1), savings_ratio))
        total_default_non_sav ==
            Add(DEFAULT_BUDGET_RULE.essentials, DEFAULT_BUDGET_RULE.wants)
        essentials_ratio ==
            Mul(remain, Div(DEFAULT_BUDGET_RULE.essentials, total_default_non_sav))
        wants_ratio ==
            Mul(remain, Div(DEFAULT_BUDGET_RULE.wants, total_default_non_sav))
    IN  [essentials |-> round2(Mul(income, essentials_ratio)),
         wants      |-> round2(Mul(income, wants_ratio)),
         savings    |-> round2(Mul(income, savings_ratio))]


\* inr(n) and _fmt_inr(n): the digits of n formatted with no decimals
inr(n) == RoundHalfEven(n)

\* list.sort(key=...): stable; Before(a, b) iff key(a) < key(b)
SortBy(seq, Before(_, _)) ==
    LET n == Len(seq)
        rank(i) ==
            1 + Cardinality({j \in 1..n :
                    \/ j < i /\ ~Before(seq[i], seq[j])
                    \/ j > i /\ Before(seq[j], seq[i])})
    IN  [p \in 1..n |-> seq[CHOOSE i \in 1..n : rank(i) = p]]

RECURSIVE SumOf(_, _)
\* sum(f(x) for x in seq) with seq a sequence of records and f a field name
SumOf(seq, field) ==
    IF seq = <<>> THEN R(0)
    ELSE Add(seq[1][field], SumOf(Tail(seq), field))

\* the ideas list literal of find_micro_savings
MICRO_SAVINGS_IDEAS ==
    << [tip |-> "Round-up transfers: auto-save spare change from each txn",
        est_monthly_savings |-> R(300)],
       [tip |-> "Switch to a lower-cost mobile/data plan",
        est_monthly_savings |-> R(250)],
       [tip |-> "Cancel one unused subscription",
        est_monthly_savings |-> R(400)],
       [tip |-> "Buy staples in bulk (rice, lentils, oil)",
        est_monthly_savings |-> R(200)],
       [tip |-> "Shift dining-out to once a week",
        est_monthly_savings |-> R(600)] >>

find_micro_savings_raises(state) ==
    state.income = None \/ state.monthly_spend = None

find_micro_savings(state) ==
    LET income == state.income
        monthly_spend == state.monthly_spend
    IN  The({ LET key(x) == Mul(Neg(x.est_monthly_savings), Add(R(1), pressure))
                  Before(a, b) == Lt(key(a), key(b))
              IN  The({ SubSeq(ideas, 1, min(R(5), R(Len(ideas)))[1]) :
                            ideas \in {SortBy(MICRO_SAVINGS_IDEAS, Before)} })
              : pressure \in
                    {clamp(Div(Sub(monthly_spend, Mul(<<9, 10>>, income)),
                               max(income, R(1))),
                           R(0), <<1, 2>>)} })

\* a debt dict field read by float(d.get(field, 0.0))
DebtNum(d, field) == Get(d, field, R(0))

\* _normalize_debts raises TypeError when float() is given None
normalize_debts_raises(debts_in) ==
    \E i \in 1..Len(debts_in) :
        \E f \in {"balance", "apr", "min_payment"} :
            DebtNum(debts_in[i], f) = None

\* _normalize_debts keeping one debt per name, as a dict keyed by name would
normalize_debts_unique_names(debts_in) ==
    LET nameOf(i) == Get(debts_in[i], "name", "Debt")
        keep == {i \in 1..Len(debts_in) :
                    \A j \in 1..(i - 1) : nameOf(j) # nameOf(i)}
        at(p) == CHOOSE i \in keep : Cardinality({j \in keep : j < i}) = p - 1
    IN  [p \in 1..Cardinality(keep) |->
            [name        |-> nameOf(at(p)),
             balance     |-> DebtNum(debts_in[at(p)], "balance"),
             apr         |-> DebtNum(debts_in[at(p)], "apr"),
             min_payment |-> DebtNum(debts_in[at(p)], "min_payment")]]

normalize_debts(debts_in) ==
    [i \in 1..Len(debts_in) |->
        [name        |-> Get(debts_in[i], "name", "Debt"),
         balance     |-> DebtNum(debts_in[i], "balance"),
         apr         |-> DebtNum(debts_in[i], "apr"),
         min_payment |-> DebtNum(debts_in[i], "min_payment")]]

\* key (d.balance, -d.apr)
SnowballBefore(a, b) ==
    \/ Lt(a.balance, b.balance)
    \/ a.balance = b.balance /\ Lt(Neg(a.apr), Neg(b.apr))

\* the avalanche key without its second component: key -d.apr
AvalancheBefore_apr_only(a, b) == Lt(Neg(a.apr), Neg(b.apr))

\* key (-d.apr, d.balance)
AvalancheBefore(a, b) ==
    \/ Lt(Neg(a.apr), Neg(b.apr))
    \/ a.apr = b.apr /\ Lt(a.balance, b.balance)

\* payoff_plan from focus_extra on; debts is the sorted list, debts[1] the
\* focus ("d is focus" is object identity: only the first sorted entry)
plan_with(method, debts, focus_extra) ==
    LET monthly(i) == Add(debts[i].min_payment,
                          IF i = 1 THEN focus_extra ELSE R(0))
        schedule ==
            [i \in 1..Len(debts) |->
                [debt |-> debts[i].name,
                 strategy |-> IF i = 1 THEN "min+extra" ELSE "min",
                 amount |-> round2(monthly(i))]]
        mean_apr == Div(SumOf(debts, "apr"), R(Len(debts)))
        projected_interest_saved ==
            round2(Mul(Mul(Mul(focus_extra, R(12)), mean_apr), <<1, 2>>))
        order ==
            [i \in 1..Len(debts) |->
                [name |-> debts[i].name,
                 balance |-> debts[i].balance,
                 apr |-> debts[i].apr,
                 months_est |->
                    max(R(1), R(RoundHalfEven(
                        Div(debts[i].balance, max(monthly(i), R(1))))))[1]]]
    IN  [method |-> method,
         next_focus |-> [name |-> debts[1].name,
                         extra_payment |-> round2(focus_extra)],
         order |-> order,
         projected_interest_saved |-> projected_interest_saved,
         recommended_total_payment |-> round2(SumOf(schedule, "amount")),
         schedule |-> schedule,
         recommendation |->
            [text |-> "Pay minimums on all, then add extra to focus",
             args |-> <<inr(focus_extra), debts[1].name>>]]

\* payoff_plan from total_min on
plan_sorted(method, debts, total_min) ==
    The({ plan_with(method, sorted, focus_extra) :
              sorted \in {debts},
              focus_extra \in
                  {max(R(0),
                       Sub(max(total_min,
                               Div(Mul(debts[1].balance, <<1, 10>>), R(12))),
                           total_min))} })

\* payoff_plan with the empty case of the first definition (lines 105-106)
plan_normalized_first_empty(debts, method) ==
    IF debts = <<>>
    THEN [next_focus |-> None,
          recommendation |-> [text |-> "No debts found.", args |-> <<>>],
          schedule |-> <<>>]
    ELSE IF method = "snowball"
    THEN plan_sorted("snowball", SortBy(debts, SnowballBefore),
                     SumOf(debts, "min_payment"))
    ELSE plan_sorted("avalanche", SortBy(debts, AvalancheBefore),
                     SumOf(debts, "min_payment"))

\* payoff_plan on the normalized list debts
plan_normalized(debts, method) ==
    IF debts = <<>>
    THEN [method |-> method,
          next_focus |-> [name |-> None, extra_payment |-> R(0)],
          order |-> <<>>,
          projected_interest_saved |-> R(0),
          recommended_total_payment |-> R(0),
          schedule |-> <<>>,
          recommendation |-> [text |-> "No debts found.", args |-> <<>>]]
    ELSE IF method = "snowball"
    THEN plan_sorted("snowball", SortBy(debts, SnowballBefore),
                     SumOf(debts, "min_payment"))
    ELSE plan_sorted("avalanche", SortBy(debts, AvalancheBefore),
                     SumOf(debts, "min_payment"))

\* the payoff_plan in effect: the second definition shadows the first
payoff_plan(debts_in, method) ==
    The({ plan_normalized(debts, method) :
              debts \in {normalize_debts(debts_in)} })

DEFAULT_CATEGORY_LIMITS ==
    [groceries |-> <<3, 25>>, dining |-> <<2, 25>>, shopping |-> <<7, 100>>,
     transport |-> <<3, 50>>, entertainment |-> <<1, 20>>]

\* est_split of detect_overspend_alerts, in dict order, as shares of spend
EST_SPLIT ==
    << [cat |-> "groceries", share |-> <<1, 5>>],
       [cat |-> "dining", share |-> <<3, 25>>],
       [cat |-> "shopping", share |-> <<1, 10>>],
       [cat |-> "transport", share |-> <<2, 25>>],
       [cat |-> "entertainment", share |-> <<3, 50>>] >>

detect_overspend_alerts_raises(state) ==
    \/ state.income = None
    \/ Lt(R(0), state.income) /\ state.monthly_spend = None

RECURSIVE FilterAlerts(_, _, _)
FilterAlerts(cats, income, monthly_spend) ==
    IF cats = <<>> THEN <<>>
    ELSE LET cat == cats[1].cat
             spent == Mul(monthly_spend, cats[1].share)
             limit_ratio == Get(DEFAULT_CATEGORY_LIMITS, cat, <<7, 100>>)
             soft_cap == Mul(Mul(income, limit_ratio), <<11, 10>>)
             rest == FilterAlerts(Tail(cats), income, monthly_spend)
         IN  IF Lt(soft_cap, spent)
             THEN <<[category |-> cat,
                     spent |-> round2(spent),
                     soft_cap |-> round2(soft_cap),
                     message |-> [text |-> "spend is above your soft cap",
                                  args |-> <<cat, inr(spent), inr(soft_cap)>>]]>>
                  \o rest
             ELSE rest

detect_overspend_alerts(state) ==
    IF Le(state.income, R(0)) THEN <<>>
    ELSE FilterAlerts(EST_SPLIT, state.income, state.monthly_spend)


\* d[k] = v on a dict
Put(d, k, v) ==
    [x \in DOMAIN d \cup {k} |-> IF x = k THEN v ELSE d[x]]

\* round(x, -3)
RoundThousands(x) == RoundTo(x, R(1000))

suggest_starter_goals(state) ==
    LET monthly_income == IF Truthy(state.income) THEN state.income ELSE R(0)
        emergency_target ==
            max(R(50000), RoundThousands(Mul(monthly_income, R(3))))
        first == [name |-> "Emergency Fund", target |-> emergency_target,
                  deadline |-> "2026-03-31", saved |-> R(0)]
        cushion == [name |-> "Debt Cushion",
                    target |-> min(R(30000), Mul(emergency_target, <<2, 5>>)),
                    deadline |-> "2025-12-31", saved |-> R(0)]
    IN  IF state.debts # <<>> THEN <<first, cushion>> ELSE <<first>>

\* float(getattr(state, "suggested_autosave", 0.0) or 0.0)
Autosave(state) ==
    IF Truthy(state.suggested_autosave) THEN state.suggested_autosave ELSE R(0)

\* update_goal_progress raises TypeError before its loop when the else arm
\* of monthly_contribution takes float(None)
contribution_raises(state) ==
    /\ state.goals # <<>>
    /\ ~Lt(R(0), Autosave(state))
    /\ state.savings_rate = None

\* monthly_contribution without the autosave arm of line 229
monthly_contribution_rate_only(state) ==
    Mul(IF Truthy(state.income) THEN state.income ELSE R(0),
        state.savings_rate)

monthly_contribution(state) ==
    LET monthly_income == IF Truthy(state.income) THEN state.income ELSE R(0)
        autosave == Autosave(state)
    IN  IF Lt(R(0), autosave) THEN Mul(autosave, <<1, 4>>)
        ELSE Mul(monthly_income, state.savings_rate)

\* the loop body raises TypeError on float(None) for a goal with a target
goal_raises(g) ==
    /\ Truthy(Get(g, "target", None))
    /\ Get(g, "saved", R(0)) = None

\* index of the first goal on which the loop raises, 0 if none
FirstBadGoal(goals) ==
    IF \E i \in 1..Len(goals) : goal_raises(goals[i])
    THEN CHOOSE i \in 1..Len(goals) :
            /\ goal_raises(goals[i])
            /\ \A j \in 1..(i - 1) : ~goal_raises(goals[j])
    ELSE 0

update_goal_progress_raises(state) ==
    contribution_raises(state) \/ FirstBadGoal(state.goals) # 0

\* the loop body adding the contribution to 0.0 instead of g.get("saved", 0.0)
advance_goal_from_zero(g, contribution) ==
    IF Truthy(Get(g, "target", None))
    THEN Put(g, "saved", min(Mul(contribution, <<3, 10>>), g.target))
    ELSE g

\* the loop body on one goal dict
advance_goal(g, contribution) ==
    IF Truthy(Get(g, "target", None))
    THEN Put(g, "saved",
             min(Add(Get(g, "saved", R(0)), Mul(contribution, <<3, 10>>)),
                 g.target))
    ELSE g

\* The goal dicts are shared with state.goals and updated in place: when the
\* loop raises on goal k the goals before k keep their update.
update_goal_progress(state) ==
    LET goals == state.goals
        bad == FirstBadGoal(goals)
    IN  IF goals = <<>> \/ contribution_raises(state) THEN goals
        ELSE [i \in 1..Len(goals) |->
                IF bad = 0 \/ i < bad
                THEN advance_goal(goals[i], monthly_contribution(state))
                ELSE goals[i]]

generate_advice_raises(state) ==
    \/ state.income = None
    \/ state.savings_rate = None
    \/ state.monthly_spend = None

generate_advice(state) ==
    LET income == state.income
        savings_rate == state.savings_rate
        budget == state.budget
        savings_amt == Get(budget, "savings", Mul(income, savings_rate))
        tips ==
            (IF Lt(savings_rate, <<1, 10>>)
             THEN <<"try nudging your savings rate up by 1-2% this month">>
             ELSE <<>>)
            \o (IF Lt(Mul(income, <<9, 10>>), state.monthly_spend)
                THEN <<"trim one discretionary category by ~10%">>
                ELSE <<>>)
            \o (IF state.debts # <<>>
                THEN <<"keep extra payments focused on the current target account">>
                ELSE <<>>)
    IN  [text |-> "You're doing well. Keep an automatic transfer on the 1st",
         args |-> <<inr(savings_amt), tips>>]


(***************************************************************************)
(* agents/*.py.  Agent.step(state) mutates the state object it is given    *)
(* and returns it.  A step operator yields the object's value when the     *)
(* call ends, the message, and the exception raised ("" when it returns).  *)
(***************************************************************************)
Returned(state, msg) == [state |-> state, msg |-> msg, exc |-> ""]
Raised(state, exc) == [state |-> state, msg |-> None, exc |-> exc]

\* f"{x:.0%}"
Percent(x) == RoundHalfEven(Mul(x, R(100)))

\* agents/budget.py Agent.step, lines 57-65: the summary message
budget_message(state, budget, savings) ==
    Returned(state,
             [text |-> "Set your monthly budget",
              args |-> <<inr(Get(budget, "essentials", R(0))),
                         inr(Get(budget, "wants", R(0))),
                         inr(savings), Percent(state.savings_rate)>>])

\* lines 50-55 with the division left unguarded: income 0 raises
budget_persist_unguarded(state, budget, income, savings) ==
    IF income[1] = 0
    THEN Raised([state EXCEPT !.budget = budget], "ZeroDivisionError")
    ELSE budget_message(
             [state EXCEPT !.budget = budget,
                           !.savings_rate = Div(savings, income)],
             budget, savings)

\* lines 50-55 without line 55: savings_rate stays what the caller set
\* (0.0 stands for an unset one, so that the message can be formatted)
budget_persist_keep_rate(state, budget, income, savings) ==
    budget_message(
        [state EXCEPT !.budget = budget,
                      !.savings_rate = IF @ = None THEN R(0) ELSE @],
        budget, savings)

\* agents/budget.py Agent.step, lines 50-55: persist on state
budget_persist(state, budget, income, savings) ==
    budget_message(
        [state EXCEPT !.budget = budget,
                      !.savings_rate = IF Lt(R(0), income)
                                       THEN Div(savings, income) ELSE R(0)],
        budget, savings)

\* agents/budget.py Agent.step, lines 42-48: the except arm
budget_fallback(income) ==
    [essentials |-> Mul(income, <<1, 2>>),
     wants      |-> Mul(income, <<3, 10>>),
     savings    |-> Mul(income, <<1, 5>>)]

\* float(state.income or 0.0)
IncomeOrZero(state) == IF Truthy(state.income) THEN state.income ELSE R(0)

\* agents/budget.py Agent.step from line 50 on, given the budget computed
budget_with(state, budget) ==
    budget_persist(state, budget, IncomeOrZero(state),
                   Get(budget, "savings", R(0)))

\* agents/budget.py Agent.step
budget_step(state) ==
    budget_with(state,
                IF calc_budget_raises(state)
                THEN budget_fallback(max(IncomeOrZero(state), R(0)))
                ELSE calc_budget(state))

\* agents/debt.py Agent.step, lines 31-46, given focus and interest_saved;
\* the texts that depend on isinstance(x, (int, float)) are left out for None
debt_message(state, method, focus, interest_saved) ==
    Returned(state,
             [text |-> "Using method. Next focus",
              args |-> <<method, Get(focus, "name", "N/A"),
                         Get(focus, "extra_payment", None),
                         IF interest_saved = None THEN None
                         ELSE R(RoundHalfEven(interest_saved))>>])

\* agents/debt.py Agent.step from line 21 on, given the plan
debt_with(state, plan) ==
    debt_message([state EXCEPT !.debt_plan = plan],
                 Get(plan, "method", "avalanche"),
                 Get(plan, "next_focus", None),
                 Get(plan, "projected_interest_saved", None))

\* agents/debt.py Agent.step
debt_step(state) ==
    IF normalize_debts_raises(state.debts) THEN Raised(state, "TypeError")
    ELSE The({ debt_with(state, plan) :
                   plan \in {payoff_plan(state.debts, state.debt_strategy)} })

\* agents/savings.py Agent.step from line 25 on
savings_message(state, ideas, suggested_autosave) ==
    Returned([state EXCEPT !.suggested_autosave = suggested_autosave],
             [text |-> IF ideas # <<>>
                       THEN "Found micro-savings. Recommend auto-transfer"
                       ELSE "No obvious waste detected. Still recommend auto-transfer",
              args |-> <<Len(ideas), suggested_autosave>>])

\* agents/savings.py Agent.step from line 19 on, given the ideas:
\* savings_suggestions is assigned before float(state.savings_rate)
savings_with(state, ideas) ==
    IF state.savings_rate = None
    THEN Raised([state EXCEPT !.savings_suggestions = ideas], "TypeError")
    ELSE savings_message(
             [state EXCEPT !.savings_suggestions = ideas], ideas,
             R(RoundHalfEven(Mul(state.income, state.savings_rate))))

\* agents/savings.py Agent.step
savings_step(state) ==
    IF find_micro_savings_raises(state) THEN Raised(state, "TypeError")
    ELSE savings_with(state, find_micro_savings(state))

IsActiveGoal(g) == Truthy(Get(g, "target", None)) /\ Get(g, "saved", None) # None

\* agents/goals.py Agent.step, lines 12-16, given the starter goals
goals_created(state, goals) ==
    Returned([state EXCEPT !.goals = goals],
             [text |-> "Created starter goals",
              args |-> [i \in 1..Len(goals) |-> goals[i].name]])

\* agents/goals.py Agent.step, lines 19-27, given the active goals
goals_message(state, active, date) ==
    IF active = <<>>
    THEN Returned(state, [text |-> "Updated goals.", args |-> <<>>])
    ELSE IF "name" \notin DOMAIN active[1]
    THEN Raised(state, "KeyError")
    ELSE Returned(state,
                  [text |-> "Updated goals. Closest",
                   args |-> <<active[1].name,
                              Trunc(Div(Mul(R(100), active[1].saved),
                                        active[1].target)),
                              Get(active[1], "deadline", date)>>])

\* agents/goals.py Agent.step, line 18 on, given what update_goal_progress
\* left in the goal dicts
goals_updated(state, goals, raised, date) ==
    IF raised THEN Raised([state EXCEPT !.goals = goals], "TypeError")
    ELSE goals_message([state EXCEPT !.goals = goals],
                       SelectSeq(goals, IsActiveGoal), date)

\* Agent.step without the return of line 16: the starter goals are advanced
\* in the call that creates them
goals_step_fall_through(state, date) ==
    IF state.goals = <<>>
    THEN goals_updated(
             state,
             update_goal_progress(
                 [state EXCEPT !.goals = suggest_starter_goals(state)]),
             FALSE, date)
    ELSE goals_updated(state, update_goal_progress(state),
                       update_goal_progress_raises(state), date)

\* agents/goals.py Agent.step
goals_step(state, date) ==
    IF state.goals = <<>>
    THEN goals_created(state, suggest_starter_goals(state))
    ELSE goals_updated(state, update_goal_progress(state),
                       update_goal_progress_raises(state), date)

\* Agent.step extending state.alerts instead of assigning it
alerts_with_appending(state, alerts) ==
    Returned([state EXCEPT !.alerts = @ \o alerts],
             IF alerts # <<>>
             THEN [text |-> "alert(s) this period.", args |-> <<Len(alerts)>>]
             ELSE [text |-> "No overspending detected.", args |-> <<>>])

\* agents/alerts.py Agent.step from line 12 on
alerts_with(state, alerts) ==
    Returned([state EXCEPT !.alerts = alerts],
             IF alerts # <<>>
             THEN [text |-> "alert(s) this period.", args |-> <<Len(alerts)>>]
             ELSE [text |-> "No overspending detected.", args |-> <<>>])

\* agents/alerts.py Agent.step
alerts_step(state) ==
    IF detect_overspend_alerts_raises(state) THEN Raised(state, "TypeError")
    ELSE alerts_with(state, detect_overspend_alerts(state))

\* the Advice step storing the savings amount it talks about in the budget
advice_step_stores_amount(state) ==
    IF generate_advice_raises(state) THEN Raised(state, "TypeError")
    ELSE Returned([state EXCEPT !.budget =
                      Put(@, "savings",
                          Get(@, "savings",
                              Mul(state.income, state.savings_rate)))],
                  generate_advice(state))

\* agents/advice.py Agent.step
advice_step(state) ==
    IF generate_advice_raises(state) THEN Raised(state, "TypeError")
    ELSE Returned(state, generate_advice(state))

\* the agent modules shipped under agents/, by stem
ShippedAgents == {"advice", "alerts", "budget", "debt", "goals", "savings"}

\* Agent.name of agents.<stem>
AgentName(stem) ==
    CASE stem = "advice"  -> "Advice Agent"
      [] stem = "alerts"  -> "Spending Alert Agent"
      [] stem = "budget"  -> "Budget Agent"
      [] stem = "debt"    -> "Debt Agent"
      [] stem = "goals"   -> "Goal Agent"
      [] stem = "savings" -> "Savings Agent"
      [] OTHER            -> stem

\* agents.<stem>.Agent().step(state) on the calendar date date
AgentStep(stem, state, date) ==
    CASE stem = "advice"  -> advice_step(state)
      [] stem = "alerts"  -> alerts_step(state)
      [] stem = "budget"  -> budget_step(state)
      [] stem = "debt"    -> debt_step(state)
      [] stem = "goals"   -> goals_step(state, date)
      [] stem = "savings" -> savings_step(state)

(***************************************************************************)
(* orchestrator/state.py                                                   *)
(***************************************************************************)
default_state ==
    [suggested_autosave |-> None,
     income |-> R(60000),
     monthly_spend |-> R(45000),
     savings_rate |-> <<3, 20>>,
     budget |-> EmptyDict,
     savings_suggestions |-> <<>>,
     debts |-> << [name |-> "Credit Card", balance |-> R(30000),
                   apr |-> <<9, 25>>, min_payment |-> R(1500)],
                  [name |-> "Student Loan", balance |-> R(120000),
                   apr |-> <<11, 100>>, min_payment |-> R(2500)] >>,
     debt_strategy |-> "avalanche",
     debt_plan |-> EmptyDict,
     goals |-> <<>>,
     alerts |-> <<>>]


(***************************************************************************)
(* The agent modules a caller can name.  Besides the shipped ones, a name  *)
(* may resolve to a module that fails to import, to one without an Agent   *)
(* class, or to one whose Agent() constructor raises.                      *)
(***************************************************************************)
AllModules == ShippedAgents \cup {"broken_import", "no_agent", "bad_init"}

\* importlib.import_module(f"agents.{name}") succeeds
Importable(stem) == stem # "broken_import"

\* hasattr(mod, "Agent")
HasAgent(stem) == stem # "no_agent"

\* mod.Agent() raises
InitRaises(stem) == stem = "bad_init"

\* str(e) of the exceptions the steps raise
ExcText(exc) ==
    CASE exc = "TypeError" ->
            "float() argument must be a string or a real number, not 'NoneType'"
      [] exc = "KeyError" -> "'name'"
      [] OTHER -> exc

(***************************************************************************)
(* orchestrator/graph.py                                                   *)
(***************************************************************************)
END == "__end__"

NoGraph == [ok |-> FALSE, exc |-> "", nodes |-> {}, entry |-> "", edges |-> {}]

\* the first name of active_agents that build_graph cannot resolve, 0 if none
FirstUnresolved(active_agents) ==
    IF \E i \in 1..Len(active_agents) :
           ~Importable(active_agents[i]) \/ ~HasAgent(active_agents[i])
    THEN CHOOSE i \in 1..Len(active_agents) :
            /\ ~Importable(active_agents[i]) \/ ~HasAgent(active_agents[i])
            /\ \A j \in 1..(i - 1) :
                   Importable(active_agents[j]) /\ HasAgent(active_agents[j])
    ELSE 0

\* build_graph calling set_entry_point for every name: the last one stays
build_graph_entry_each(active_agents) ==
    IF active_agents = <<>>
    THEN [ok |-> TRUE, exc |-> "", nodes |-> {"noop"}, entry |-> "noop",
          edges |-> {}]
    ELSE IF FirstUnresolved(active_agents) # 0
    THEN [NoGraph EXCEPT !.exc =
             IF ~Importable(active_agents[FirstUnresolved(active_agents)])
             THEN "ImportError" ELSE "AttributeError"]
    ELSE [ok |-> TRUE, exc |-> "",
          nodes |-> {active_agents[i] : i \in 1..Len(active_agents)},
          entry |-> active_agents[Len(active_agents)],
          edges |-> {<<active_agents[i], active_agents[i + 1]>> :
                        i \in 1..(Len(active_agents) - 1)}
                    \cup {<<active_agents[Len(active_agents)], END>>}]

\* build_graph never advancing prev: every edge leaves the first node
build_graph_prev_fixed(active_agents) ==
    IF active_agents = <<>>
    THEN [ok |-> TRUE, exc |-> "", nodes |-> {"noop"}, entry |-> "noop",
          edges |-> {}]
    ELSE IF FirstUnresolved(active_agents) # 0
    THEN [NoGraph EXCEPT !.exc =
             IF ~Importable(active_agents[FirstUnresolved(active_agents)])
             THEN "ImportError" ELSE "AttributeError"]
    ELSE [ok |-> TRUE, exc |-> "",
          nodes |-> {active_agents[i] : i \in 1..Len(active_agents)},
          entry |-> active_agents[1],
          edges |-> {<<active_agents[1], active_agents[i]>> :
                        i \in 2..Len(active_agents)}
                    \cup {<<active_agents[1], END>>}]

\* build_graph without add_edge(prev, name): only the final edge to END
build_graph_unchained(active_agents) ==
    IF active_agents = <<>>
    THEN [ok |-> TRUE, exc |-> "", nodes |-> {"noop"}, entry |-> "noop",
          edges |-> {}]
    ELSE IF FirstUnresolved(active_agents) # 0
    THEN [NoGraph EXCEPT !.exc =
             IF ~Importable(active_agents[FirstUnresolved(active_agents)])
             THEN "ImportError" ELSE "AttributeError"]
    ELSE [ok |-> TRUE, exc |-> "",
          nodes |-> {active_agents[i] : i \in 1..Len(active_agents)},
          entry |-> active_agents[1],
          edges |-> {<<active_agents[Len(active_agents)], END>>}]

\* build_graph: the compiled graph, or the exception it raises
build_graph(active_agents) ==
    IF active_agents = <<>>
    THEN [ok |-> TRUE, exc |-> "", nodes |-> {"noop"}, entry |-> "noop",
          edges |-> {}]
    ELSE LET bad == FirstUnresolved(active_agents)
             n == Len(active_agents)
         IN  IF bad # 0
             THEN [NoGraph EXCEPT !.exc =
                      IF ~Importable(active_agents[bad])
                      THEN "ImportError" ELSE "AttributeError"]
             ELSE [ok |-> TRUE, exc |-> "",
                   nodes |-> {active_agents[i] : i \in 1..n},
                   entry |-> active_agents[1],
                   edges |-> {<<active_agents[i], active_agents[i + 1]>> :
                                 i \in 1..(n - 1)}
                             \cup {<<active_agents[n], END>>}]

\* a placeholder node that reports itself
noop_reporting(pl) ==
    [pl EXCEPT !.messages =
        Append(@, [agent |-> "noop",
                   content |-> [text |-> "nothing to run", args |-> <<>>]])]

\* build_graph's placeholder node for an empty selection
noop(pl) == pl

\* the record of one Agent.step invocation with result r
call_record(via, stem, ref, obj, r) ==
    [via |-> via, stem |-> stem, arg |-> ref, seen |-> obj,
     left |-> r.state, ret |-> IF r.exc = "" THEN ref ELSE 0,
     exc |-> r.exc, msg |-> r.msg]

\* one Agent.step invocation on the object ref whose value is obj
step_call(via, stem, ref, obj, date) ==
    The({ call_record(via, stem, ref, obj, r) :
              r \in {AgentStep(stem, obj, date)} })

\* the except arm returning the payload as it came: no error message
node_outcome_silent(stem, pl, c) ==
    [payload |-> [user_state |-> IF c.exc = "" THEN c.ret ELSE pl.user_state,
                  messages |-> IF c.exc = ""
                               THEN Append(pl.messages,
                                        [agent |-> AgentName(stem),
                                         content |-> c.msg])
                               ELSE pl.messages],
     obj |-> c.left, call |-> c]

\* the except arm restoring the State the step was given
node_outcome_rollback(stem, pl, c) ==
    [payload |-> [user_state |-> IF c.exc = "" THEN c.ret ELSE pl.user_state,
                  messages |-> Append(pl.messages,
                      [agent |-> AgentName(stem),
                       content |-> IF c.exc = "" THEN c.msg
                                   ELSE [text |-> "Error: ",
                                         args |-> <<c.exc, ExcText(c.exc),
                                                    "traceback">>]])],
     obj |-> IF c.exc = "" THEN c.left ELSE c.seen, call |-> c]

\* _make_node.node, lines 29-37, given the outcome c of agent.step(state)
node_outcome(stem, pl, c) ==
    IF c.exc = ""
    THEN [payload |-> [user_state |-> c.ret,
                       messages |-> Append(pl.messages,
                           [agent |-> AgentName(stem), content |-> c.msg])],
          obj |-> c.left, call |-> c]
    ELSE [payload |-> [user_state |-> pl.user_state,
                       messages |-> Append(pl.messages,
                           [agent |-> AgentName(stem),
                            content |-> [text |-> "Error: ",
                                         args |-> <<c.exc, ExcText(c.exc),
                                                    "traceback">>]])],
          obj |-> c.left, call |-> c]

\* _make_node.node past the constructor: the try block around agent.step
node(stem, pl, obj, date) ==
    The({ node_outcome(stem, pl, c) :
              c \in {step_call("graph", stem, pl.user_state, obj, date)} })

(***************************************************************************)
(* app.py                                                                  *)
(***************************************************************************)
RECURSIVE load_agents_stop(_)
\* load_agents giving up at the first name it cannot load
load_agents_stop(names) ==
    IF names = <<>> THEN [agents |-> <<>>, notices |-> <<>>]
    ELSE IF ~Importable(names[1]) \/ ~HasAgent(names[1]) \/ InitRaises(names[1])
    THEN [agents |-> <<>>,
          notices |-> <<[kind |-> "error", about |-> names[1],
                         text |-> "Import error"]>>]
    ELSE [load_agents_stop(Tail(names)) EXCEPT !.agents = <<names[1]>> \o @]

RECURSIVE load_agents(_)
\* load_agents: the constructed agents and the notices shown
load_agents(names) ==
    IF names = <<>> THEN [agents |-> <<>>, notices |-> <<>>]
    ELSE LET name == names[1]
             rest == load_agents(Tail(names))
         IN  IF ~Importable(name)
             THEN [rest EXCEPT !.notices =
                      <<[kind |-> "error", about |-> name,
                         text |-> "Import error"]>> \o @]
             ELSE IF ~HasAgent(name)
             THEN [rest EXCEPT !.notices =
                      <<[kind |-> "warning", about |-> name,
                         text |-> "missing an Agent class"]>> \o @]
             ELSE IF InitRaises(name)
             THEN [rest EXCEPT !.notices =
                      <<[kind |-> "error", about |-> name,
                         text |-> "Failed to init agent"]>> \o @]
             ELSE [rest EXCEPT !.agents = <<name>> \o @]

RECURSIVE run_once_fallback(_, _, _, _)

\* the loop of run_once_fallback ending at the first step that raises
fallback_from_break(as, ref, c, date) ==
    IF c.exc = ""
    THEN [run_once_fallback(c.ret, c.left, Tail(as), date)
             EXCEPT !.msgs = <<[agent |-> AgentName(as[1]),
                                content |-> c.msg]>> \o @,
                    !.calls = <<c>> \o @]
    ELSE [state_obj |-> ref,
          msgs |-> <<[agent |-> AgentName(as[1]),
                      content |-> [text |-> "Error: ",
                                   args |-> <<ExcText(c.exc)>>]]>>,
          obj |-> c.left, calls |-> <<c>>]

\* run_once_fallback's loop body, lines 106-110, given the outcome c of
\* a.step(state_obj), and then the rest of the loop
fallback_from(as, ref, c, date) ==
    [run_once_fallback(IF c.exc = "" THEN c.ret ELSE ref, c.left, Tail(as),
                       date)
        EXCEPT !.msgs =
                  <<IF c.exc = ""
                    THEN [agent |-> AgentName(as[1]), content |-> c.msg]
                    ELSE [agent |-> AgentName(as[1]),
                          content |-> [text |-> "Error: ",
                                       args |-> <<ExcText(c.exc)>>]]>> \o @,
               !.calls = <<c>> \o @]

\* run_once_fallback on the object ref whose value is obj
run_once_fallback(ref, obj, as, date) ==
    IF as = <<>>
    THEN [state_obj |-> ref, msgs |-> <<>>, obj |-> obj, calls |-> <<>>]
    ELSE The({ fallback_from(as, ref, c, date) :
                   c \in {step_call("fallback", as[1], ref, obj, date)} })

(***************************************************************************)
(* One "Run Once" script run of app.py on a State handed in by the caller. *)
(***************************************************************************)
MaxSteps == 3

\* the ordered selections of distinct module names, at most MaxSteps long
Selections ==
    {en \in UNION {[1..k -> AllModules] : k \in 0..MaxSteps} :
        \A i, j \in 1..Len(en) : i # j => en[i] # en[j]}

\* States a caller may hand in: the default, the all-zero one, one whose
\* second goal has saved = None and whose debt has balance = None, and one
\* whose savings_rate is None.
StateInputs ==
    << default_state,
       [default_state EXCEPT !.income = R(0), !.monthly_spend = R(0),
                             !.savings_rate = R(0), !.debts = <<>>],
       [default_state EXCEPT
           !.goals = << [name |-> "A", target |-> R(100), saved |-> R(0)],
                        [name |-> "B", target |-> R(50), saved |-> None] >>,
           !.debts = << [name |-> "X", balance |-> None] >>],
       [default_state EXCEPT !.savings_rate = None] >>

\* calendar dates, in order
Dates == << "2026-01-01", "2026-01-02" >>

InitWith(state) ==
    /\ heap = [r \in {1} |-> state]
    /\ user_state = 1
    /\ state0 = state
    /\ enabled = <<>>
    /\ pc = "idle"
    /\ graph = NoGraph
    /\ agents = <<>>
    /\ payload = [user_state |-> 0, messages |-> <<>>]
    /\ frontier = {}
    /\ executing = {}
    /\ latest_msgs = <<>>
    /\ notices = <<>>
    /\ escaped = ""
    /\ calls = <<>>
    /\ today = Dates[1]
    /\ runs = <<>>

Init == \E i \in 1..Len(StateInputs) : InitWith(StateInputs[i])

\* app.py 181-191: the script builds the graph and loads the agents
ClickRunOnce(en) ==
    /\ pc = "idle"
    /\ enabled' = en
    /\ graph' = build_graph(en)
    /\ agents' = load_agents(en).agents
    /\ notices' =
        (IF build_graph(en).ok THEN <<>>
         ELSE <<[kind |-> "warning", about |-> build_graph(en).exc,
                 text |-> "Graph build failed; using simple runner."]>>)
        \o load_agents(en).notices
    /\ pc' = "loaded"
    /\ UNCHANGED <<heap, user_state, payload, frontier, executing,
                   latest_msgs, escaped, calls, state0,
                   today, runs>>

\* run_graph_once handing invoke a messages list that outlives the call
InvokeGraph_shared_messages ==
    /\ pc = "loaded"
    /\ graph.ok
    /\ payload' = [user_state |-> user_state, messages |-> payload.messages]
    /\ frontier' = {graph.entry}
    /\ pc' = "invoking"
    /\ UNCHANGED <<heap, user_state, enabled, graph, agents, executing,
                   latest_msgs, notices, escaped, calls, state0,
                   today, runs>>

\* run_graph_once up to compiled_graph.invoke(payload)
InvokeGraph ==
    /\ pc = "loaded"
    /\ graph.ok
    /\ payload' = [user_state |-> user_state, messages |-> <<>>]
    /\ frontier' = {graph.entry}
    /\ pc' = "invoking"
    /\ UNCHANGED <<heap, user_state, enabled, graph, agents, executing,
                   latest_msgs, notices, escaped, calls, state0,
                   today, runs>>

\* the nodes the graph's edges schedule after n
Successors(n) == {e[2] : e \in {d \in graph.edges : d[1] = n}} \ {END}

\* the graph engine starts a scheduled node
NodeStart(n) ==
    /\ pc = "invoking"
    /\ n \in frontier
    /\ frontier' = frontier \ {n}
    /\ executing' = executing \cup {n}
    /\ UNCHANGED <<heap, user_state, enabled, pc, graph, agents, payload,
                   latest_msgs, notices, escaped, calls, state0,
                   today, runs>>

\* a started node runs to its end: noop, or _make_node.node
NodeReturn(n) ==
    /\ pc = "invoking"
    /\ n \in executing
    /\ IF n = "noop"
       THEN /\ payload' = noop(payload)
            /\ executing' = executing \ {n}
            /\ frontier' = frontier \cup Successors(n)
            /\ UNCHANGED <<heap, calls, escaped, notices, pc>>
       ELSE IF InitRaises(n)
       THEN \* agent = mod.Agent() is outside the try: the exception leaves
            \* node, invoke and run_graph_once; app.py 196-197 catches it
            /\ escaped' = "RuntimeError"
            /\ notices' = Append(notices,
                   [kind |-> "error", about |-> n,
                    text |-> "Graph run failed; falling back to simple runner."])
            /\ pc' = "graph_raised"
            /\ executing' = {}
            /\ frontier' = {}
            /\ UNCHANGED <<heap, payload, calls>>
       ELSE \E r \in {node(n, payload, heap[payload.user_state], today)} :
                /\ heap' = [heap EXCEPT ![payload.user_state] = r.obj]
                /\ payload' = r.payload
                /\ calls' = Append(calls, r.call)
                /\ executing' = executing \ {n}
                /\ frontier' = frontier \cup Successors(n)
                /\ UNCHANGED <<escaped, notices, pc>>
    /\ UNCHANGED <<user_state, enabled, graph, agents, latest_msgs, state0,
                   today, runs>>

\* invoke returns; run_graph_once returns (out["user_state"], out["messages"])
GraphReturn ==
    /\ pc = "invoking"
    /\ frontier = {}
    /\ executing = {}
    /\ user_state' = payload.user_state
    /\ latest_msgs' = payload.messages
    /\ pc' = "done"
    /\ UNCHANGED <<heap, enabled, graph, agents, payload, frontier, executing,
                   notices, escaped, calls, state0,
                   today, runs>>

\* app.py 198 and 200: the simple runner, when there is no graph or the
\* graph run raised
Fallback ==
    /\ pc = "graph_raised" \/ (pc = "loaded" /\ ~graph.ok)
    /\ \E r \in {run_once_fallback(user_state, heap[user_state], agents,
                                   today)} :
           /\ user_state' = r.state_obj
           /\ heap' = [heap EXCEPT ![user_state] = r.obj]
           /\ latest_msgs' = r.msgs
           /\ calls' = calls \o r.calls
    /\ pc' = "done"
    /\ UNCHANGED <<enabled, graph, agents, payload, frontier, executing,
                   notices, escaped, state0,
                   today, runs>>

Next ==
    \/ \E en \in Selections : ClickRunOnce(en)
    \/ InvokeGraph
    \/ \E n \in AllModules \cup {"noop"} : NodeStart(n)
    \/ \E n \in AllModules \cup {"noop"} : NodeReturn(n)
    \/ GraphReturn
    \/ Fallback

Spec == Init /\ [][Next]_vars


(***************************************************************************)
(* Single agents applied directly to a State, one Agent.step at a time.    *)
(***************************************************************************)
MaxCalls == 2

IncomeInputs ==
    << R(0), <<1, 200>>, <<3, 500>>, R(1), <<251, 100>>, R(60000) >>

RateInputs ==
    << None, <<-1, 2>>, R(0), <<1, 250>>, <<3, 20>>, <<1, 3>>, <<9, 10>>,
       R(1), <<3, 2>> >>

DebtInputs == << default_state.debts, <<>> >>

StepInit ==
    \E i \in 1..Len(IncomeInputs), j \in 1..Len(RateInputs),
       k \in 1..Len(DebtInputs) :
        InitWith([default_state EXCEPT !.income = IncomeInputs[i],
                                       !.savings_rate = RateInputs[j],
                                       !.debts = DebtInputs[k]])

\* agents.<stem>.Agent().step(state) on the session's State
DirectStep(stem) ==
    /\ pc = "idle"
    /\ Len(calls) < MaxCalls
    /\ \E c \in {step_call("direct", stem, user_state, heap[user_state],
                           today)} :
           /\ heap' = [heap EXCEPT ![user_state] = c.left]
           /\ calls' = Append(calls, c)
    /\ UNCHANGED <<user_state, enabled, pc, graph, agents, payload, frontier,
                   executing, latest_msgs, notices, escaped, state0,
                   today, runs>>

StepNext == \E stem \in ShippedAgents : DirectStep(stem)

StepSpec == StepInit /\ [][StepNext]_vars


(***************************************************************************)
(* Properties of a run.  RunnerSteps are the steps of the runner whose      *)
(* messages the run kept, RunnerCalls the Agent.step invocations it made.   *)
(***************************************************************************)
ByGraph == graph.ok /\ escaped = ""

RunnerSteps == IF ByGraph THEN enabled ELSE agents

IsFallbackCall(c) == c.via = "fallback"

RunnerCalls == IF ByGraph THEN calls ELSE SelectSeq(calls, IsFallbackCall)

IsErrorMessage(m) == m.content.text = "Error: "

Unresolvable(stem) == ~Importable(stem) \/ ~HasAgent(stem)

Loadable(stem) == Importable(stem) /\ HasAgent(stem) /\ ~InitRaises(stem)

\* C1: a finished run over N valid step modules has exactly N messages, and
\* the i-th message carries the name of the i-th step of the sequence, whose
\* step method was the i-th one invoked.
C1_OrderPreserved ==
    (pc = "done" /\ \A i \in 1..Len(enabled) : enabled[i] \in ShippedAgents)
    => /\ ByGraph
       /\ Len(latest_msgs) = Len(enabled)
       /\ Len(calls) = Len(enabled)
       /\ \A i \in 1..Len(enabled) :
              /\ latest_msgs[i].agent = AgentName(enabled[i])
              /\ calls[i].stem = enabled[i]
              /\ calls[i].via = "graph"

C1_ThreeStepsRan ==
    /\ pc = "done"
    /\ ByGraph
    /\ Len(enabled) = 3
    /\ enabled[1] = "savings"
    /\ enabled[2] = "budget"
    /\ enabled[3] = "advice"
    /\ Len(latest_msgs) = 3

\* C2: when the step method of step k raises, the run still has one message
\* per step: message k is an error message under step k's declared name that
\* carries the exception's text, and the message of every step that returned
\* is that step's own output.
C2_FailureIsolated ==
    pc = "done"
    => /\ Len(latest_msgs) = Len(RunnerSteps)
       /\ Len(RunnerCalls) = Len(RunnerSteps)
       /\ \A k \in 1..Len(RunnerSteps) :
              /\ latest_msgs[k].agent = AgentName(RunnerSteps[k])
              /\ RunnerCalls[k].exc # ""
                 => /\ IsErrorMessage(latest_msgs[k])
                    /\ \E j \in 1..Len(latest_msgs[k].content.args) :
                           latest_msgs[k].content.args[j] =
                               ExcText(RunnerCalls[k].exc)
              /\ RunnerCalls[k].exc = ""
                 => latest_msgs[k].content = RunnerCalls[k].msg

C2_MiddleStepRaised ==
    /\ pc = "done"
    /\ ByGraph
    /\ Len(calls) = 3
    /\ calls[1].exc = ""
    /\ calls[2].exc # ""
    /\ calls[3].exc = ""
    /\ Len(latest_msgs) = 3

\* C3: no exception leaves run_graph_once; whatever goes wrong in a step
\* ends up as a message of the returned pair.
C3_NothingEscapes == escaped = ""

\* C4 as stated: resolving the named steps never raises, so once the script
\* has resolved them a compiled graph exists.
C4_ResolutionNeverRaises == pc # "idle" => graph.ok /\ graph.exc = ""

\* C4, amended: when a named step cannot be imported or has no Agent class,
\* build_graph raises (ImportError, AttributeError) and no graph exists; the
\* script reports that as a warning and uses the simple runner over
\* load_agents, which does not raise: each such step is left out with a
\* notice of its own, and all loadable steps run in their given order.
C4_ExcludedByLoadAgents ==
    (pc # "idle" /\ \E i \in 1..Len(enabled) : Unresolvable(enabled[i]))
    => /\ ~graph.ok
       /\ escaped = ""
       /\ graph.exc =
              IF ~Importable(enabled[FirstUnresolved(enabled)])
              THEN "ImportError" ELSE "AttributeError"
       /\ notices[1].kind = "warning"
       /\ notices[1].about = graph.exc
       /\ \A i \in 1..Len(enabled) :
              Unresolvable(enabled[i])
              => \E j \in 2..Len(notices) : notices[j].about = enabled[i]
       /\ agents = SelectSeq(enabled, Loadable)
       /\ pc = "done"
          => /\ Len(latest_msgs) = Len(agents)
             /\ Len(calls) = Len(agents)
             /\ \A i \in 1..Len(agents) :
                    /\ calls[i].stem = agents[i]
                    /\ calls[i].via = "fallback"
                    /\ latest_msgs[i].agent = AgentName(agents[i])

C4_MiddleStepExcluded ==
    /\ pc = "done"
    /\ Len(enabled) = 3
    /\ Loadable(enabled[1])
    /\ Unresolvable(enabled[2])
    /\ Loadable(enabled[3])
    /\ Len(latest_msgs) = 2
    /\ Len(calls) = 2

\* C5: at most one node is scheduled or executing at any time; the step
\* methods are invoked in the order of the sequence; each one is handed the
\* reference returned by the latest earlier step of the run that succeeded
\* (the caller's reference if none did), and finds the State exactly as the
\* step before it left it.
C5_StrictlySequential ==
    /\ Cardinality(frontier \cup executing) <= 1
    /\ frontier \cap executing = {}
    /\ \A i \in 1..Len(calls) :
           /\ calls[i].seen = IF i = 1 THEN state0 ELSE calls[i - 1].left
           /\ \A j \in 1..(i - 1) :
                  (/\ calls[j].via = calls[i].via
                   /\ calls[j].exc = ""
                   /\ \A k \in (j + 1)..(i - 1) : calls[k].exc # "")
                  => calls[i].arg = calls[j].ret
           /\ (\A j \in 1..(i - 1) :
                   calls[j].via = calls[i].via => calls[j].exc # "")
              => calls[i].arg = user_state
    /\ graph.ok
       => /\ \A i \in 1..Len(calls) :
                 calls[i].via = "graph" => i <= Len(enabled) /\ calls[i].stem = enabled[i]
          /\ \A n \in frontier \cup executing :
                 n # "noop" => /\ Len(calls) < Len(enabled)
                               /\ n = enabled[Len(calls) + 1]
    /\ \A i \in 1..Len(SelectSeq(calls, IsFallbackCall)) :
           /\ i <= Len(agents)
           /\ SelectSeq(calls, IsFallbackCall)[i].stem = agents[i]

C5_ThirdStepAfterFailure ==
    /\ pc = "invoking"
    /\ Len(enabled) = 3
    /\ Len(calls) = 2
    /\ calls[1].exc = ""
    /\ calls[2].exc # ""
    /\ executing = {enabled[3]}

\* C6: after a step raises, the next step is handed the reference the failed
\* step was handed, and the State it finds is the one the failed step left,
\* partial writes included; when the failed step is the last one, that is
\* the State the run ends with.
C6_NoRollback ==
    \A i \in 1..Len(calls) :
        calls[i].exc # ""
        => /\ i < Len(calls)
              => /\ calls[i + 1].arg = calls[i].arg
                 /\ calls[i + 1].seen = calls[i].left
           /\ i = Len(calls)
              => /\ heap[calls[i].arg] = calls[i].left
                 /\ pc = "invoking" => payload.user_state = calls[i].arg
                 /\ pc = "done" => user_state = calls[i].arg

C6_PartialWritesCarried ==
    \E i \in 1..Len(calls) :
        /\ i < Len(calls)
        /\ calls[i].via = "graph"
        /\ calls[i].exc # ""
        /\ calls[i].left # calls[i].seen
        /\ calls[i + 1].via = "graph"
        /\ calls[i + 1].seen = calls[i].left

\* C7: a run over the empty sequence goes through the no-op node only: no
\* step method is invoked, and during and after it the message list is
\* empty and the State is the caller's object with every field as it was.
C7_EmptyRun ==
    (enabled = <<>> /\ pc \in {"invoking", "done"})
    => /\ graph.ok
       /\ graph.nodes = {"noop"}
       /\ payload.messages = <<>>
       /\ payload.user_state = user_state
       /\ heap[user_state] = state0
       /\ calls = <<>>
       /\ escaped = ""
       /\ pc = "done" => latest_msgs = <<>>

C7_EmptyRunDone ==
    /\ pc = "done"
    /\ enabled = <<>>
    /\ graph.entry = "noop"
    /\ latest_msgs = <<>>
    /\ frontier = {}


(***************************************************************************)
(* Properties of single steps                                              *)
(***************************************************************************)
\* a default State, possibly with income zero, possibly with no debts
FreshState(state) ==
    \/ state = default_state
    \/ state = [default_state EXCEPT !.income = R(0)]
    \/ state = [default_state EXCEPT !.debts = <<>>]
    \/ state = [default_state EXCEPT !.income = R(0), !.debts = <<>>]

BudgetSum(budget) == Add(Add(budget.essentials, budget.wants), budget.savings)

\* three amounts, each rounded to the nearest paisa
RoundingTolerance == <<3, 200>>

\* C8: every shipped step invoked on a fresh default State, also one with
\* zero income and one with no debts or goals, returns instead of raising,
\* and its message is not empty.
C8_DefaultStateSafe ==
    \A i \in 1..Len(calls) :
        FreshState(calls[i].seen)
        => /\ calls[i].exc = ""
           /\ calls[i].ret = calls[i].arg
           /\ calls[i].msg # None
           /\ calls[i].msg.text # ""

C8_BudgetOnZeroIncome ==
    /\ Len(calls) = 1
    /\ calls[1].stem = "budget"
    /\ calls[1].seen = [default_state EXCEPT !.income = R(0), !.debts = <<>>]
    /\ calls[1].exc = ""

\* C9: after the Budget step on a State with income >= 0 and any
\* savings_rate, essentials + wants + savings differs from income by no
\* more than the rounding of the three amounts.
C9_BudgetSumsToIncome ==
    \A i \in 1..Len(calls) :
        (calls[i].stem = "budget" /\ Le(R(0), calls[i].seen.income))
        => /\ calls[i].exc = ""
           /\ Le(Sub(BudgetSum(calls[i].left.budget), calls[i].seen.income),
                 RoundingTolerance)
           /\ Le(Sub(calls[i].seen.income, BudgetSum(calls[i].left.budget)),
                 RoundingTolerance)

C9_RateOutOfRangeRounded ==
    \E i \in 1..Len(calls) :
        /\ calls[i].stem = "budget"
        /\ calls[i].seen.savings_rate # None
        /\ Lt(R(1), calls[i].seen.savings_rate)
        /\ BudgetSum(calls[i].left.budget) # calls[i].seen.income

\* C10: after the Budget step, savings_rate is budget.savings / income when
\* income is positive and 0 when income is 0, whatever it was before.
C10_SavingsRateRecomputed ==
    \A i \in 1..Len(calls) :
        calls[i].stem = "budget"
        => /\ Lt(R(0), calls[i].seen.income)
              => calls[i].left.savings_rate =
                     Div(calls[i].left.budget.savings, calls[i].seen.income)
           /\ calls[i].seen.income = R(0)
              => calls[i].left.savings_rate = R(0)

C10_RateChangedByBudget ==
    \E i \in 1..Len(calls) :
        /\ calls[i].stem = "budget"
        /\ Lt(R(0), calls[i].seen.income)
        /\ calls[i].seen.savings_rate # calls[i].left.savings_rate
        /\ calls[i].left.savings_rate # R(0)


(***************************************************************************)
(* Single agents applied to States that differ in debts and debt_strategy. *)
(***************************************************************************)
DebtListInputs ==
    << default_state.debts,
       <<>>,
       << [name |-> "A", balance |-> R(30000), apr |-> <<9, 25>>,
           min_payment |-> R(1500)],
          [name |-> "B", balance |-> R(120000), apr |-> <<11, 100>>,
           min_payment |-> R(2500)],
          [name |-> "C", balance |-> R(5000), apr |-> <<1, 20>>,
           min_payment |-> R(500)] >>,
       << [name |-> "P", balance |-> R(9000), apr |-> <<1, 5>>,
           min_payment |-> R(300)],
          [name |-> "Q", balance |-> R(4000), apr |-> <<1, 5>>,
           min_payment |-> R(200)],
          [name |-> "S", balance |-> R(4000), apr |-> <<1, 10>>,
           min_payment |-> R(200)],
          [name |-> "T", balance |-> R(4000), apr |-> <<1, 5>>,
           min_payment |-> R(100)] >>,
       << [name |-> "Z"],
          [name |-> "Y", balance |-> R(700), apr |-> <<3, 10>>] >>,
       << [name |-> "D", balance |-> R(100), apr |-> <<1, 5>>,
           min_payment |-> R(10)],
          [name |-> "D", balance |-> R(100), apr |-> <<1, 5>>,
           min_payment |-> R(10)],
          [name |-> "D", balance |-> R(50), apr |-> <<3, 10>>] >> >>

StrategyInputs == << "avalanche", "snowball", "fifo" >>

DebtInit ==
    \E i \in 1..Len(DebtListInputs), j \in 1..Len(StrategyInputs) :
        InitWith([default_state EXCEPT !.debts = DebtListInputs[i],
                                       !.debt_strategy = StrategyInputs[j]])

DebtSpec == DebtInit /\ [][StepNext]_vars

\* name is the name of a debt of debts with the highest APR and, among
\* those, the smallest balance
IsAvalancheFocus(debts, name) ==
    \E i \in 1..Len(debts) :
        /\ debts[i].name = name
        /\ \A j \in 1..Len(debts) :
               /\ Le(debts[j].apr, debts[i].apr)
               /\ debts[j].apr = debts[i].apr
                  => Le(debts[i].balance, debts[j].balance)

\* name is the name of a debt of debts with the smallest balance and, among
\* those, the highest APR
IsSnowballFocus(debts, name) ==
    \E i \in 1..Len(debts) :
        /\ debts[i].name = name
        /\ \A j \in 1..Len(debts) :
               /\ Le(debts[i].balance, debts[j].balance)
               /\ debts[j].balance = debts[i].balance
                  => Le(debts[j].apr, debts[i].apr)

\* C11: on a non-empty debts list the Debt step's next focus is, under
\* avalanche, a debt with the highest APR (smallest balance among equals)
\* and, under snowball, a debt with the smallest balance (highest APR among
\* equals); for A(30000, 0.36), B(120000, 0.11), C(5000, 0.05) that is A
\* under avalanche and C under snowball.
C11_FocusByStrategy ==
    \A i \in 1..Len(calls) :
        (calls[i].stem = "debt" /\ calls[i].seen.debts # <<>>)
        => /\ calls[i].exc = ""
           /\ calls[i].seen.debt_strategy = "avalanche"
              => /\ IsAvalancheFocus(normalize_debts(calls[i].seen.debts),
                                     calls[i].left.debt_plan.next_focus.name)
                 /\ calls[i].seen.debts = DebtListInputs[3]
                    => calls[i].left.debt_plan.next_focus.name = "A"
           /\ calls[i].seen.debt_strategy = "snowball"
              => /\ IsSnowballFocus(normalize_debts(calls[i].seen.debts),
                                    calls[i].left.debt_plan.next_focus.name)
                 /\ calls[i].seen.debts = DebtListInputs[3]
                    => calls[i].left.debt_plan.next_focus.name = "C"

C11_TieBrokenByBalance ==
    \E i \in 1..Len(calls) :
        /\ calls[i].stem = "debt"
        /\ calls[i].exc = ""
        /\ calls[i].seen.debts = DebtListInputs[4]
        /\ calls[i].seen.debt_strategy = "avalanche"
        /\ calls[i].left.debt_plan.next_focus.name = "Q"

PlanKeys == {"method", "next_focus", "order", "projected_interest_saved"}

\* C12: after the Debt step, whatever the debts list (empty too) and the
\* debt_strategy, debt_plan has a method, a next_focus record with name and
\* extra_payment, an order list with one entry per debt, and a
\* projected_interest_saved number.
C12_PlanShape ==
    \A i \in 1..Len(calls) :
        calls[i].stem = "debt"
        => /\ calls[i].exc = ""
           /\ PlanKeys \subseteq DOMAIN calls[i].left.debt_plan
           /\ {"name", "extra_payment"}
                  \subseteq DOMAIN calls[i].left.debt_plan.next_focus
           /\ calls[i].left.debt_plan.next_focus.extra_payment # None
           /\ Len(calls[i].left.debt_plan.order) = Len(calls[i].seen.debts)
           /\ calls[i].left.debt_plan.projected_interest_saved # None

C12_PlanForNoDebts ==
    \E i \in 1..Len(calls) :
        /\ calls[i].stem = "debt"
        /\ calls[i].seen.debts = <<>>
        /\ calls[i].seen.debt_strategy = "snowball"
        /\ calls[i].exc = ""
        /\ calls[i].left.debt_plan.order = <<>>


(***************************************************************************)
(* Single agents applied to States that differ in goals.                   *)
(***************************************************************************)
GoalListInputs ==
    << <<>>,
       << [name |-> "G", target |-> R(0), saved |-> R(50)] >>,
       << [name |-> "H", saved |-> R(20)] >>,
       << [name |-> "K", target |-> R(1000), saved |-> R(2000),
           deadline |-> "2026-06-30"] >>,
       << [name |-> "L", target |-> R(100000), saved |-> R(0)],
          [name |-> "M", target |-> R(500)] >> >>

GoalInit ==
    \E i \in 1..Len(GoalListInputs), k \in 1..Len(DebtInputs) :
        InitWith([default_state EXCEPT !.goals = GoalListInputs[i],
                                       !.debts = DebtInputs[k]])

GoalSpec == GoalInit /\ [][StepNext]_vars

\* saved <= target for every goal of goals that has both
GoalsClamped(goals) ==
    \A k \in 1..Len(goals) :
        {"saved", "target"} \subseteq DOMAIN goals[k]
        => Le(goals[k].saved, goals[k].target)

\* C13: after the Goals step every goal of state.goals has saved <= target,
\* whatever saved and target were before, a target of 0 included.
C13_SavedWithinTarget ==
    \A i \in 1..Len(calls) :
        (calls[i].stem = "goals" /\ calls[i].exc = "")
        => GoalsClamped(calls[i].left.goals)


\* the State invariants: 0 <= savings_rate <= 1, income >= 0,
\* monthly_spend >= 0, debt_strategy one of avalanche and snowball
StateInvariants(state) ==
    /\ state.savings_rate # None
    /\ Le(R(0), state.savings_rate)
    /\ Le(state.savings_rate, R(1))
    /\ Le(R(0), state.income)
    /\ Le(R(0), state.monthly_spend)
    /\ state.debt_strategy \in {"avalanche", "snowball"}

\* C14: a step run on a State that satisfies the four State invariants
\* leaves a State that satisfies them, so they hold after any sequence of
\* steps.
C14_InvariantsPreserved ==
    \A i \in 1..Len(calls) :
        StateInvariants(calls[i].seen) => StateInvariants(calls[i].left)

\* savings_rate is a number outside [0, 1]
RateOutOfRange(state) ==
    /\ state.savings_rate # None
    /\ Lt(state.savings_rate, R(0)) \/ Lt(R(1), state.savings_rate)

\* C15: the Budget step on a State whose savings_rate is outside [0, 1]
\* returns, leaves savings_rate within [0, 1] and, income being >= 0,
\* leaves no budget envelope negative.
C15_RateClamped ==
    \A i \in 1..Len(calls) :
        (/\ calls[i].stem = "budget"
         /\ RateOutOfRange(calls[i].seen)
         /\ Le(R(0), calls[i].seen.income))
        => /\ calls[i].exc = ""
           /\ Le(R(0), calls[i].left.savings_rate)
           /\ Le(calls[i].left.savings_rate, R(1))
           /\ Le(R(0), calls[i].left.budget.essentials)
           /\ Le(R(0), calls[i].left.budget.wants)
           /\ Le(R(0), calls[i].left.budget.savings)

StateFields == DOMAIN default_state

\* the fields a step is meant to write
Designated(stem) ==
    CASE stem = "budget"  -> {"budget", "savings_rate"}
      [] stem = "debt"    -> {"debt_plan"}
      [] stem = "savings" -> {"savings_suggestions", "suggested_autosave"}
      [] stem = "goals"   -> {"goals"}
      [] stem = "alerts"  -> {"alerts"}
      [] stem = "advice"  -> {}

\* C16: a step, whether it returns or raises, leaves every field outside
\* its designated ones as it found it, and no step changes income,
\* monthly_spend, debts or debt_strategy.
C16_DesignatedFieldsOnly ==
    \A i \in 1..Len(calls) :
        /\ DOMAIN calls[i].left = StateFields
        /\ \A f \in StateFields \ Designated(calls[i].stem) :
               calls[i].left[f] = calls[i].seen[f]
        /\ \A f \in {"income", "monthly_spend", "debts", "debt_strategy"} :
               calls[i].left[f] = calls[i].seen[f]

C16_PartialWriteIsDesignated ==
    \E i \in 1..Len(calls) :
        /\ calls[i].stem = "savings"
        /\ calls[i].exc # ""
        /\ calls[i].left.savings_suggestions # calls[i].seen.savings_suggestions
        /\ calls[i].left.suggested_autosave = calls[i].seen.suggested_autosave


(***************************************************************************)
(* A session of app.py: script runs one after another on the session's     *)
(* State, each one a "Run Once" or a "Reset State", while the date moves.  *)
(***************************************************************************)
MaxEvents == 3

SessionSelections ==
    << <<"goals">>, <<"advice">>, <<"budget", "goals">>,
       <<"savings", "bad_init">>, <<"savings", "goals">> >>

SessionInputs ==
    << default_state,
       [default_state EXCEPT
           !.goals = << [name |-> "L", target |-> R(100),
                         saved |-> R(100)] >>] >>

SessionInit == \E i \in 1..Len(SessionInputs) : InitWith(SessionInputs[i])

\* a State whose mutable defaults are the lists of the first State made
get_state_obj_shared_defaults(objects) ==
    [default_state EXCEPT !.goals = objects[1].goals,
                          !.budget = objects[1].budget,
                          !.alerts = objects[1].alerts]

\* _get_state_obj(): a new UserState; objects are the ones that exist
get_state_obj(objects) == default_state

\* a "Run Once" script run ends; the next script run starts from the top
ScriptEnd ==
    /\ pc = "done"
    /\ Len(runs) < MaxEvents
    /\ runs' = Append(runs, [kind |-> "run", state_in |-> state0,
                             enabled |-> enabled, date |-> today,
                             ref |-> user_state,
                             state_out |-> heap[user_state],
                             msgs |-> latest_msgs])
    /\ pc' = "idle"
    /\ state0' = heap[user_state]
    /\ enabled' = <<>>
    /\ graph' = NoGraph
    /\ agents' = <<>>
    /\ latest_msgs' = <<>>
    /\ notices' = <<>>
    /\ escaped' = ""
    /\ calls' = <<>>
    /\ UNCHANGED <<heap, user_state, payload, frontier, executing, today>>

\* app.py 176-178: a script run with "Reset State" pressed
ResetState ==
    /\ pc = "idle"
    /\ Len(runs) < MaxEvents
    /\ \E new \in {Cardinality(DOMAIN heap) + 1} :
           /\ heap' = [r \in DOMAIN heap \cup {new} |->
                          IF r = new THEN get_state_obj(heap) ELSE heap[r]]
           /\ user_state' = new
           /\ state0' = heap'[new]
           /\ runs' = Append(runs, [kind |-> "reset",
                                    state_in |-> heap[user_state],
                                    enabled |-> <<>>, date |-> today,
                                    ref |-> new, state_out |-> heap'[new],
                                    msgs |-> <<>>])
    /\ UNCHANGED <<enabled, pc, graph, agents, payload, frontier, executing,
                   latest_msgs, notices, escaped, calls, today>>

\* the calendar date changes between two script runs
Midnight ==
    /\ pc = "idle"
    /\ \E i \in 1..(Len(Dates) - 1) : today = Dates[i] /\ today' = Dates[i + 1]
    /\ UNCHANGED <<heap, user_state, enabled, pc, graph, agents, payload,
                   frontier, executing, latest_msgs, notices, escaped, calls,
                   state0, runs>>

SessionNext ==
    \/ /\ Len(runs) < MaxEvents
       /\ \E i \in 1..Len(SessionSelections) : ClickRunOnce(SessionSelections[i])
    \/ InvokeGraph
    \/ \E n \in AllModules \cup {"noop"} : NodeStart(n)
    \/ \E n \in AllModules \cup {"noop"} : NodeReturn(n)
    \/ GraphReturn
    \/ Fallback
    \/ ScriptEnd
    \/ ResetState
    \/ Midnight

SessionSpec == SessionInit /\ [][SessionNext]_vars

IsRun(e) == e.kind = "run"

\* C17 as stated: two runs given equal States and the same step sequence
\* return equal States and equal message lists, whatever happened before.
C17_RunsReproducible ==
    \A i, j \in 1..Len(runs) :
        (/\ IsRun(runs[i]) /\ IsRun(runs[j])
         /\ runs[i].state_in = runs[j].state_in
         /\ runs[i].enabled = runs[j].enabled)
        => /\ runs[i].state_out = runs[j].state_out
           /\ runs[i].msgs = runs[j].msgs

\* C17, amended: two runs made on the same calendar date, given equal
\* States and the same step sequence, return equal States and equal message
\* lists, whatever runs, resets and step resolutions happened before; and
\* the returned States are equal also when the dates differ.
C17_ReproducibleOnSameDate ==
    \A i, j \in 1..Len(runs) :
        (/\ IsRun(runs[i]) /\ IsRun(runs[j])
         /\ runs[i].state_in = runs[j].state_in
         /\ runs[i].enabled = runs[j].enabled)
        => /\ runs[i].state_out = runs[j].state_out
           /\ runs[i].date = runs[j].date => runs[i].msgs = runs[j].msgs

C17_SameRunAfterReset ==
    /\ Len(runs) = 3
    /\ IsRun(runs[1])
    /\ runs[1].enabled = <<"budget", "goals">>
    /\ runs[2].kind = "reset"
    /\ IsRun(runs[3])
    /\ runs[3].enabled = runs[1].enabled
    /\ runs[3].state_in = runs[1].state_in
    /\ runs[3].ref # runs[1].ref
    /\ runs[3].msgs = runs[1].msgs
    /\ Len(runs[3].msgs) = 2

\* C19: the State a reset installs is a new object that equals a freshly
\* constructed default State (income 60000, monthly_spend 45000,
\* savings_rate 0.15, the two default debts, strategy avalanche, the
\* agent-populated fields empty), whatever runs came before it.
C19_ResetGivesDefault ==
    /\ \A i \in 1..Len(runs) :
           runs[i].kind = "reset"
           => /\ runs[i].state_out = default_state
              /\ runs[i].state_out.income = R(60000)
              /\ runs[i].state_out.monthly_spend = R(45000)
              /\ runs[i].state_out.savings_rate = <<3, 20>>
              /\ Len(runs[i].state_out.debts) = 2
              /\ runs[i].state_out.debt_strategy = "avalanche"
              /\ runs[i].state_out.goals = <<>>
              /\ runs[i].state_out.alerts = <<>>
              /\ runs[i].state_out.savings_suggestions = <<>>
              /\ runs[i].state_out.suggested_autosave = None
              /\ runs[i].ref # 1
              /\ \A j \in 1..(i - 1) : runs[j].ref # runs[i].ref
    /\ (Len(runs) > 0 /\ pc = "idle")
       => (runs[Len(runs)].kind = "reset"
           => /\ user_state = runs[Len(runs)].ref
              /\ heap[user_state] = default_state)

C19_ResetAfterMutatingRun ==
    /\ Len(runs) = 2
    /\ IsRun(runs[1])
    /\ runs[1].enabled = <<"budget", "goals">>
    /\ runs[1].state_out # runs[1].state_in
    /\ runs[2].kind = "reset"
    /\ runs[2].state_in = runs[1].state_out
    /\ pc = "idle"


(***************************************************************************)
(* A run that has started keeps going: the script and the graph engine     *)
(* take their next step whenever there is one.                             *)
(***************************************************************************)
RunStep ==
    \/ InvokeGraph
    \/ \E n \in AllModules \cup {"noop"} : NodeStart(n)
    \/ \E n \in AllModules \cup {"noop"} : NodeReturn(n)
    \/ GraphReturn
    \/ Fallback

LiveSpec == Init /\ [][Next]_vars /\ WF_vars(RunStep)

\* the step method of every step of the sequence that could be loaded was
\* invoked by the runner whose result the run returned
EveryStepAttempted ==
    \A i \in 1..Len(enabled) :
        Loadable(enabled[i])
        => \E k \in 1..Len(RunnerCalls) : RunnerCalls[k].stem = enabled[i]

\* C18: a run that has started eventually returns, and by then the step
\* method of every step of the sequence has been invoked, also when some
\* of them raise.
C18_RunTerminates ==
    (pc = "loaded") ~> (pc = "done" /\ EveryStepAttempted)

C18_ReturnedAfterFailures ==
    /\ pc = "done"
    /\ Len(enabled) = 3
    /\ Len(calls) = 3
    /\ calls[1].exc # ""
    /\ calls[2].exc # ""
    /\ EveryStepAttempted

\* C20: after the Debt step debt_plan.method is "avalanche" or "snowball";
\* any other debt_strategy is reported as "avalanche", for every debts list,
\* the empty one included.
C20_MethodIsKnownStrategy ==
    \A i \in 1..Len(calls) :
        (calls[i].stem = "debt" /\ calls[i].exc = "")
        => /\ calls[i].left.debt_plan.method \in {"avalanche", "snowball"}
           /\ calls[i].seen.debt_strategy \notin {"avalanche", "snowball"}
              => calls[i].left.debt_plan.method = "avalanche"

\* 25% of suggested_autosave when that is positive, income * savings_rate
\* otherwise
ContributionOf(state) ==
    IF state.suggested_autosave # None /\ Lt(R(0), state.suggested_autosave)
    THEN Mul(<<1, 4>>, state.suggested_autosave)
    ELSE Mul(state.income, state.savings_rate)

\* g has a target (one that is not 0)
HasTarget(g) ==
    "target" \in DOMAIN g /\ g.target # None /\ g.target # R(0)

\* goals with 30% of contribution added to every goal that has a target,
\* capped at the target
GoalsAdvancedBy(goals, contribution) ==
    [k \in 1..Len(goals) |->
        IF HasTarget(goals[k])
        THEN Put(goals[k], "saved",
                 min(Add(Get(goals[k], "saved", R(0)),
                         Mul(<<3, 10>>, contribution)),
                     goals[k].target))
        ELSE goals[k]]

CallsOf(stem) == {i \in 1..Len(calls) : calls[i].stem = stem}

\* C22: one "Run Once" script run invokes the step method of every enabled,
\* loadable step exactly once, and of no step twice, also when the graph run
\* raises part-way and the script falls back to the simple runner.
C22_EachStepOnce ==
    /\ \A stem \in AllModules : Cardinality(CallsOf(stem)) <= 1
    /\ pc = "done"
       => \A i \in 1..Len(enabled) :
              Loadable(enabled[i]) => Cardinality(CallsOf(enabled[i])) = 1

\* C23: when the Agent constructor of step k raises in its graph node,
\* run_graph_once still returns: no exception leaves it, the run has one
\* message per step with an error message for step k, and the steps after k
\* are run by the graph.
C23_ConstructorFailureIsolated ==
    /\ pc # "graph_raised"
    /\ \A k \in 1..Len(enabled) :
           (pc = "done" /\ graph.ok /\ InitRaises(enabled[k]))
           => /\ escaped = ""
              /\ Len(latest_msgs) = Len(enabled)
              /\ latest_msgs[k].agent = AgentName(enabled[k])
              /\ IsErrorMessage(latest_msgs[k])
              /\ \A j \in (k + 1)..Len(enabled) :
                     Loadable(enabled[j])
                     => \E c \in 1..Len(calls) :
                            /\ calls[c].stem = enabled[j]
                            /\ calls[c].via = "graph"

\* what run_once_fallback returns and leaves, given what the graph run r
\* of the same steps on the same State returned and left
SameAsFallback(r) ==
    /\ heap[user_state] = r.obj
    /\ user_state = r.state_obj
    /\ Len(latest_msgs) = Len(r.msgs)
    /\ \A k \in 1..Len(r.msgs) :
           /\ latest_msgs[k].agent = r.msgs[k].agent
           /\ r.calls[k].exc = "" => latest_msgs[k].content = r.msgs[k].content

StarterNames(debts) ==
    IF debts # <<>> THEN <<"Emergency Fund", "Debt Cushion">>
    ELSE <<"Emergency Fund">>

\* goal dict g without its saved entry
WithoutSaved(g) == [f \in DOMAIN g \ {"saved"} |-> g[f]]

\* after holds the goals of before, in order, changed in saved at most
OnlySavedChanged(before, after) ==
    /\ Len(after) = Len(before)
    /\ \A k \in 1..Len(before) : WithoutSaved(after[k]) = WithoutSaved(before[k])

\* C25: on a State with no goals the Goals step only creates the starter
\* goals, Emergency Fund always and Debt Cushion exactly when debts is not
\* empty, each with saved = 0; on a State whose goals list is not empty a
\* step, whichever it is and whether it returns or raises, leaves the same
\* goals with the same names and targets: only saved may change.
C25_TwoPhases ==
    \A i \in 1..Len(calls) :
        /\ (calls[i].stem = "goals" /\ calls[i].seen.goals = <<>>)
           => /\ calls[i].exc = ""
              /\ Len(calls[i].left.goals) = Len(StarterNames(calls[i].seen.debts))
              /\ \A k \in 1..Len(calls[i].left.goals) :
                     /\ calls[i].left.goals[k].name =
                            StarterNames(calls[i].seen.debts)[k]
                     /\ calls[i].left.goals[k].saved = R(0)
        /\ calls[i].seen.goals # <<>>
           => OnlySavedChanged(calls[i].seen.goals, calls[i].left.goals)
        /\ (calls[i].stem # "goals" /\ calls[i].seen.goals = <<>>)
           => calls[i].left.goals = <<>>

C25_CreatedThenAdvanced ==
    /\ Len(calls) = 2
    /\ calls[1].stem = "goals"
    /\ calls[1].seen.goals = <<>>
    /\ calls[1].seen.debts = <<>>
    /\ Len(calls[1].left.goals) = 1
    /\ calls[2].stem = "goals"
    /\ calls[2].exc = ""
    /\ calls[2].left.goals[1].saved = R(2700)
    /\ calls[2].left.goals[1].target = calls[1].left.goals[1].target

(***************************************************************************)
(* The Goals step run again and again on one State, with no other step in  *)
(* between.  The State starts with income > 0, 0 < savings_rate <= 1 and   *)
(* saved <= target in every goal.                                          *)
(***************************************************************************)
RepeatIncomes == << R(60000), R(20000) >>

RepeatRates == << <<3, 20>>, R(1) >>

RepeatAutosaves == << None, R(9000) >>

RepeatGoals ==
    << <<>>,
       << [name |-> "L", target |-> R(100000), saved |-> R(0)],
          [name |-> "M", target |-> R(500)] >>,
       << [name |-> "K", target |-> R(1000), saved |-> R(1000),
           deadline |-> "2026-06-30"] >>,
       << [name |-> "N", target |-> R(20000), saved |-> R(5000)],
          [name |-> "P", saved |-> R(20)] >> >>

RepeatInit ==
    \E i \in 1..Len(RepeatIncomes), j \in 1..Len(RepeatRates),
       a \in 1..Len(RepeatAutosaves), g \in 1..Len(RepeatGoals) :
        InitWith([default_state EXCEPT !.income = RepeatIncomes[i],
                                       !.savings_rate = RepeatRates[j],
                                       !.suggested_autosave = RepeatAutosaves[a],
                                       !.goals = RepeatGoals[g]])

\* one more agents.goals.Agent().step(state) on the session's State
GoalsRun ==
    /\ pc = "idle"
    /\ \E r \in {goals_step(heap[user_state], today)} :
           heap' = [heap EXCEPT ![user_state] = r.state]
    /\ UNCHANGED <<user_state, enabled, pc, graph, agents, payload, frontier,
                   executing, latest_msgs, notices, escaped, calls, state0,
                   today, runs>>

RepeatSpec == RepeatInit /\ [][GoalsRun]_vars /\ WF_vars(GoalsRun)

\* saved of goal g, a goal dict without the key counting as 0
SavedOf(g) == Get(g, "saved", R(0))

\* no goal that stays in place has a smaller saved after the step
SavedNotDecreased ==
    \A k \in 1..Len(heap[user_state].goals) :
        k <= Len(heap'[user_state].goals)
        => Le(SavedOf(heap[user_state].goals[k]),
              SavedOf(heap'[user_state].goals[k]))

\* every goal with a positive target has saved = target
AllAtTarget ==
    /\ heap[user_state].goals # <<>>
    /\ \A k \in 1..Len(heap[user_state].goals) :
           (/\ "target" \in DOMAIN heap[user_state].goals[k]
            /\ Lt(R(0), heap[user_state].goals[k].target))
           => SavedOf(heap[user_state].goals[k]) =
                  heap[user_state].goals[k].target

C27_BudgetIdempotent ==
    \A i \in 1..(Len(calls) - 1) :
        (/\ calls[i].stem = "budget"
         /\ calls[i + 1].stem = "budget"
         /\ calls[i].seen.income # None
         /\ Le(R(0), calls[i].seen.income)
         /\ calls[i].seen.savings_rate # None
         /\ calls[i].exc = "")
        => /\ calls[i + 1].exc = ""
           /\ calls[i + 1].left.budget = calls[i].left.budget
           /\ calls[i + 1].left.savings_rate = calls[i].left.savings_rate

\* name, balance and apr of a debt or of an entry of order
DebtEntry(d) == [name |-> d.name, balance |-> d.balance, apr |-> d.apr]

\* how many entries of seq are the debt e
TimesIn(seq, e) == Cardinality({k \in 1..Len(seq) : DebtEntry(seq[k]) = e})

\* order is sorted by the key of method: (balance, -apr) for snowball,
\* (-apr, balance) for avalanche
SortedFor(method, order) ==
    \A k \in 1..(Len(order) - 1) :
        IF method = "snowball"
        THEN \/ Lt(order[k].balance, order[k + 1].balance)
             \/ /\ order[k].balance = order[k + 1].balance
                /\ Le(order[k + 1].apr, order[k].apr)
        ELSE \/ Lt(order[k + 1].apr, order[k].apr)
             \/ /\ order[k].apr = order[k + 1].apr
                /\ Le(order[k].balance, order[k + 1].balance)

\* C28: for a non-empty debts list, debt_plan.order holds every input debt
\* exactly once (as long as debts, equal names included), sorted by the
\* strategy's key; next_focus.name is the name of order's first entry,
\* next_focus.extra_payment is >= 0, and exactly one schedule entry has
\* the strategy "min+extra".
C28_OrderIsSortedPermutation ==
    \A i \in 1..Len(calls) :
        (/\ calls[i].stem = "debt"
         /\ calls[i].exc = ""
         /\ calls[i].seen.debts # <<>>)
        => /\ Len(calls[i].left.debt_plan.order) = Len(calls[i].seen.debts)
           /\ \A k \in 1..Len(calls[i].seen.debts) :
                  TimesIn(calls[i].left.debt_plan.order,
                          DebtEntry(normalize_debts(calls[i].seen.debts)[k]))
                  = TimesIn(normalize_debts(calls[i].seen.debts),
                            DebtEntry(normalize_debts(calls[i].seen.debts)[k]))
           /\ calls[i].left.debt_plan.method = "snowball"
              <=> calls[i].seen.debt_strategy = "snowball"
           /\ SortedFor(calls[i].left.debt_plan.method,
                        calls[i].left.debt_plan.order)
           /\ calls[i].left.debt_plan.next_focus.name =
                  calls[i].left.debt_plan.order[1].name
           /\ Le(R(0), calls[i].left.debt_plan.next_focus.extra_payment)
           /\ Cardinality({k \in 1..Len(calls[i].left.debt_plan.schedule) :
                  calls[i].left.debt_plan.schedule[k].strategy = "min+extra"})
              = 1

C28_EqualNamesKept ==
    \E i \in 1..Len(calls) :
        /\ calls[i].stem = "debt"
        /\ calls[i].exc = ""
        /\ calls[i].seen.debts = DebtListInputs[6]
        /\ calls[i].seen.debt_strategy = "snowball"
        /\ Len(calls[i].left.debt_plan.order) = 3
        /\ calls[i].left.debt_plan.order[1].balance = R(50)
        /\ calls[i].left.debt_plan.order[2] = calls[i].left.debt_plan.order[3]
        /\ calls[i].left.debt_plan.schedule[2].strategy = "min"

(***************************************************************************)
(* Single agents applied to States that differ in income, monthly_spend    *)
(* and the alerts an earlier run left.                                     *)
(***************************************************************************)
AlertIncomes == << R(-100), R(0), R(1), R(12000), R(60000), R(100000) >>

AlertSpends == << R(0), R(5000), R(11000), R(45000) >>

\* alerts lists left by an earlier run
AlertLists ==
    << <<>>,
       << [category |-> "shopping", spent |-> R(4500), soft_cap |-> R(462),
           message |-> [text |-> "spend is above your soft cap",
                        args |-> <<"shopping", 4500, 462>>]] >> >>

AlertInit ==
    \E i \in 1..Len(AlertIncomes), j \in 1..Len(AlertSpends),
       k \in 1..Len(AlertLists) :
        InitWith([default_state EXCEPT !.income = AlertIncomes[i],
                                       !.monthly_spend = AlertSpends[j],
                                       !.alerts = AlertLists[k]])

AlertSpec == AlertInit /\ [][StepNext]_vars

\* income > 0 and the estimated spend of the category, its share of
\* monthly_spend, exceeds income * limit * 1.10
AlertDue(state, split) ==
    /\ Lt(R(0), state.income)
    /\ Lt(Mul(Mul(state.income, DEFAULT_CATEGORY_LIMITS[split.cat]), <<11, 10>>),
          Mul(state.monthly_spend, split.share))

\* C29: the Alerts step replaces state.alerts: after it, and after any
\* steps that follow, alerts holds at most one entry per category (at most
\* 5), an entry for a category exactly when income > 0 and the category's
\* estimated spend exceeds income * category limit * 1.10, and no entry at
\* all when income <= 0.
C29_AlertsReplaced ==
    \A i \in 1..Len(calls) :
        /\ (calls[i].stem = "alerts" /\ calls[i].exc = "")
           => /\ Len(calls[i].left.alerts) <= 5
              /\ \A j, k \in 1..Len(calls[i].left.alerts) :
                     j # k => calls[i].left.alerts[j].category #
                              calls[i].left.alerts[k].category
              /\ \A c \in 1..Len(EST_SPLIT) :
                     (\E k \in 1..Len(calls[i].left.alerts) :
                          calls[i].left.alerts[k].category = EST_SPLIT[c].cat)
                     <=> AlertDue(calls[i].seen, EST_SPLIT[c])
              /\ Le(calls[i].seen.income, R(0)) => calls[i].left.alerts = <<>>
        /\ calls[i].stem # "alerts"
           => calls[i].left.alerts = calls[i].seen.alerts

C29_StaleAlertsReplacedTwice ==
    /\ Len(calls) = 2
    /\ calls[1].stem = "alerts"
    /\ calls[1].seen.alerts = AlertLists[2]
    /\ calls[1].seen.income = R(60000)
    /\ calls[1].seen.monthly_spend = R(45000)
    /\ calls[2].stem = "alerts"
    /\ Len(calls[2].left.alerts) = 2
    /\ calls[2].left.alerts[1].category = "groceries"
    /\ calls[2].left.alerts[2].category = "dining"

====
